---- MODULE Spec2Model ----
(***************************************************************************)
(* Model of the platform-specific pull operations of package distribution *)
(* (distribution/pull_v2_unix.go and its windows counterpart): the layer   *)
(* descriptor's open, detectBaseLayer, configurePolicyContext,             *)
(* checkTrusted and storeSignatures, and of the pull that drives them.     *)
(***************************************************************************)
EXTENDS Integers, Sequences, FiniteSets, TLC

\* ------------------------------------------------------------------ bounds
\* the longest list of alternate URLs a layer descriptor carries
MaxURLs == 3
\* the longest manifest history
MaxHist == 2
\* the number of image slots of the local image store
MaxImages == 2

\* ------------------------------------------------------------------ values
\* the nil stream: no URL, no digest
Nil == [from |-> "nil", url |-> 0, digest |-> 0]
\* an error is its message, a list of words; the nil error has none
NoErr == <<>>

Variants == {"unix", "windows"}

URLSet == 1..MaxURLs
\* layer digests: the i-th layer of a manifest has digest i
Digests == 1..MaxHist
\* what a seek or a blob-store open answers: nil or one of two errors
IOErrs == {<<"e1">>, <<"e2">>}
Outcomes == {NoErr} \cup IOErrs

RECURSIVE SeqsOver(_, _)
SeqsOver(S, n) ==
    IF n = 0 THEN {<<>>}
    ELSE LET shorter == SeqsOver(S, n - 1)
         IN shorter \cup {Append(s, x) : s \in {t \in shorter : Len(t) = n - 1}, x \in S}

Range(s) == {s[i] : i \in 1..Len(s)}

\* lists without a repeated element
InjSeqs(S, n) == {s \in SeqsOver(S, n) : Cardinality(Range(s)) = Len(s)}

VARIABLES
    variant,       \* the build: which of the two files is compiled in
    pc,            \* position of the caller
    env,           \* what the collaborators answer (network, engine, stores)
    ld,            \* the layer descriptor open is called on: digest, src.URLs
    rsc,           \* open: the returned ReadSeekCloser
    openErr,       \* open: the returned error
    contacted,     \* the URLs a seek was attempted on, in order
    openStreams,   \* the streams created and not closed
    blobLog,       \* the digests opened from the registry blob store, in order
    policyContext, \* p.policyContext, as configurePolicyContext made it
    configErr,     \* configurePolicyContext: the returned error
    originalRef,   \* p.originalRef
    trustIn,       \* checkTrusted: the arguments ref and unparsed
    trustRef,      \* checkTrusted: the returned reference
    trustErr,      \* checkTrusted: the returned error
    engineLog,     \* the sources the policy engine was asked about, in order
    manifestLog,   \* the sources a manifest was retrieved from, in order
    imageStore,    \* is.Map(): the images of the local store, by image id
    manifest,      \* m: the schema1 manifest detectBaseLayer is given
    rootFS,        \* the RootFS of the image being pulled
    baseErr,       \* detectBaseLayer: the returned error
    mapCalls,      \* the number of scans of the image store (is.Map())
    pullRef,       \* the reference the pull was asked for
    unparsedImg,   \* ciImage: the returned unparsed image
    committed,     \* the digests of the layers committed to the layer store
    failure,       \* the kind the pull failed with, "none" while it has not
    sigErr,        \* storeSignatures: the returned error
    sigStore,      \* the images the signature store holds a record of
    opened,       \* the streams of the layers opened and not yet committed
    fetchLog,      \* the layers opened, in the order their open returned
    resolverCalls, \* the number of calls of detectBaseLayer the pull made
    cancelSignal,  \* the caller has cancelled the pull
    commitsAtCancel, \* the number of layers committed when it cancelled
    tlsOptions,    \* tlsconfig: the Options of the call
    tlsFiles,      \* tlsconfig: what the file system holds
    tlsReturned,   \* tlsconfig: the returned *tls.Config
    tlsErr,        \* tlsconfig: the returned error
    tlsLoads,      \* tlsconfig: the loaders of a key pair the call ran
    rpmCall,       \* rpm: the argument of Version and its environment's answers
    rpmOptions,    \* rpm: options
    cmdProcess,    \* rpm: cmd.Process: nil, running, exited or killed
    cmdStdout,     \* rpm: out, the buffer rpm writes to
    waiter,        \* rpm: where the goroutine of Version is
    waitErr,       \* rpm: what cmd.Wait() returned to the goroutine
    timeout,       \* rpm: the timer of time.After
    versionOut,    \* rpm: the string Version returned
    versionErr     \* rpm: the error Version returned

openVars == <<ld, rsc, openErr, contacted, openStreams, blobLog>>
trustVars == <<policyContext, configErr, originalRef, trustIn, trustRef, trustErr,
               engineLog, manifestLog>>
baseVars == <<imageStore, manifest, rootFS, baseErr, mapCalls>>
rpmVars == <<rpmCall, rpmOptions, cmdProcess, cmdStdout, waiter, waitErr, timeout,
             versionOut, versionErr>>
tlsVars == <<tlsOptions, tlsFiles, tlsReturned, tlsErr, tlsLoads>>
pullVars == <<pullRef, unparsedImg, committed, failure, sigErr, sigStore, opened,
              fetchLog, resolverCalls, cancelSignal, commitsAtCancel>>

\* what a step of rpm.Version leaves alone
nonRpmVars == <<tlsVars, variant, env, openVars, trustVars, baseVars, pullVars>>

\* ------------------------------------------------------------------ open
\* transport.NewHTTPReadSeeker(http.DefaultClient, url, nil)
NewHTTPReadSeeker(url) == [from |-> "url", url |-> url, digest |-> 0]

\* ld.repo.Blobs(ctx).Open(ctx, ld.digest): the blob store's stream or error
BlobsOpen(dgst) ==
    IF env.blob[dgst] = NoErr
    THEN [rsc |-> [from |-> "blob", url |-> 0, digest |-> dgst], err |-> NoErr]
    ELSE [rsc |-> Nil, err |-> env.blob[dgst]]

\* rsc.Seek(0, os.SEEK_SET) on the stream of url
Seek(url) == env.url[url]

\* the for loop of open (windows), from the i-th URL on; st is the loop's
\* state: rsc, err, the URLs contacted and the streams left open
RECURSIVE URLLoopBreakLate(_, _, _)
URLLoopBreakLate(urls, i, st) ==
    IF i > Len(urls) THEN st
    ELSE LET s == NewHTTPReadSeeker(urls[i])
             e == Seek(urls[i])
             seen == Append(st.contacted, urls[i])
         IN IF e = NoErr
            THEN URLLoopBreakLate(urls, i + 1,
                     [rsc |-> s, err |-> NoErr, contacted |-> seen,
                      open |-> st.open \cup {s}])
            ELSE URLLoopBreakLate(urls, i + 1,
                     [rsc |-> st.rsc, err |-> st.err, contacted |-> seen,
                      open |-> st.open])

RECURSIVE URLLoopFirstErr(_, _, _)
URLLoopFirstErr(urls, i, st) ==
    IF i > Len(urls) THEN st
    ELSE LET s == NewHTTPReadSeeker(urls[i])
             e == Seek(urls[i])
             seen == Append(st.contacted, urls[i])
         IN IF e = NoErr
            THEN [rsc |-> s, err |-> NoErr, contacted |-> seen,
                  open |-> st.open \cup {s}]
            ELSE URLLoopFirstErr(urls, i + 1,
                     [rsc |-> Nil, err |-> IF st.err = NoErr THEN e ELSE st.err,
                      contacted |-> seen, open |-> st.open])

\* the loop without rsc.Close() on the stream whose seek failed
RECURSIVE URLLoopNoClose(_, _, _)
URLLoopNoClose(urls, i, st) ==
    IF i > Len(urls) THEN st
    ELSE LET s == NewHTTPReadSeeker(urls[i])
             e == Seek(urls[i])
             seen == Append(st.contacted, urls[i])
         IN IF e = NoErr
            THEN [rsc |-> s, err |-> NoErr, contacted |-> seen,
                  open |-> st.open \cup {s}]
            ELSE URLLoopNoClose(urls, i + 1,
                     [rsc |-> Nil, err |-> e, contacted |-> seen,
                      open |-> st.open \cup {s}])

RECURSIVE URLLoop(_, _, _)
URLLoop(urls, i, st) ==
    IF i > Len(urls) THEN st
    ELSE LET s == NewHTTPReadSeeker(urls[i])
             e == Seek(urls[i])
             seen == Append(st.contacted, urls[i])
         IN IF e = NoErr
            THEN [rsc |-> s, err |-> NoErr, contacted |-> seen,
                  open |-> st.open \cup {s}]
            ELSE URLLoop(urls, i + 1,
                     [rsc |-> Nil, err |-> e, contacted |-> seen,
                      open |-> (st.open \cup {s}) \ {s}])

\* var ( err error; rsc distribution.ReadSeekCloser )
LoopStart == [rsc |-> Nil, err |-> NoErr, contacted |-> <<>>, open |-> {}]

\* open (windows) without the branch for a descriptor that has no URLs
open_windowsAlwaysLoops(d) ==
    LET r == URLLoop(d.URLs, 1, LoopStart)
    IN /\ ld' = d
       /\ rsc' = r.rsc
       /\ openErr' = r.err
       /\ contacted' = contacted \o r.contacted
       /\ openStreams' = openStreams \cup r.open
       /\ blobLog' = blobLog

\* (ld *v2LayerDescriptor) open, windows build
open_windows(d) ==
    /\ ld' = d
    /\ IF Len(d.URLs) = 0
       THEN LET r == BlobsOpen(d.digest)
            IN /\ rsc' = r.rsc
               /\ openErr' = r.err
               /\ blobLog' = Append(blobLog, d.digest)
               /\ openStreams' = openStreams \cup ({r.rsc} \ {Nil})
               /\ contacted' = contacted
       ELSE LET r == URLLoop(d.URLs, 1, LoopStart)
            IN /\ rsc' = r.rsc
               /\ openErr' = r.err
               /\ contacted' = contacted \o r.contacted
               /\ openStreams' = openStreams \cup r.open
               /\ blobLog' = blobLog

\* open (unix) that goes through the alternate URLs of a descriptor that has
\* some
open_unixTriesURLs(d) ==
    /\ ld' = d
    /\ IF Len(d.URLs) = 0
       THEN LET r == BlobsOpen(d.digest)
            IN /\ rsc' = r.rsc
               /\ openErr' = r.err
               /\ blobLog' = Append(blobLog, d.digest)
               /\ openStreams' = openStreams \cup ({r.rsc} \ {Nil})
               /\ contacted' = contacted
       ELSE LET r == URLLoop(d.URLs, 1, LoopStart)
            IN /\ rsc' = r.rsc
               /\ openErr' = r.err
               /\ contacted' = contacted \o r.contacted
               /\ openStreams' = openStreams \cup r.open
               /\ blobLog' = blobLog

\* (ld *v2LayerDescriptor) open, non-windows build
open_unix(d) ==
    LET r == BlobsOpen(d.digest)
    IN /\ ld' = d
       /\ rsc' = r.rsc
       /\ openErr' = r.err
       /\ blobLog' = Append(blobLog, d.digest)
       /\ openStreams' = openStreams \cup ({r.rsc} \ {Nil})
       /\ contacted' = contacted

\* ------------------------------------------------------------ trust gate
\* a reference.Named: repository name, optional tag, optional digest
Names == {"repo/image", "base/os"}
NilRef == [name |-> "", tag |-> "", digest |-> ""]
Refs ==
    {[name |-> n, tag |-> "", digest |-> ""] : n \in Names}
    \cup {[name |-> n, tag |-> "latest", digest |-> ""] : n \in Names}
    \cup {[name |-> n, tag |-> "", digest |-> "sha256:old"] : n \in Names}

\* the image sources a types.UnparsedImage stands for
Sources == {"src1", "src2"}
Manifests == {"m1", "m2"}
NoManifest == "unavailable"

\* ref.String()
RefString(ref) ==
    IF ref.digest # "" THEN <<ref.name, "@", ref.digest>>
    ELSE IF ref.tag # "" THEN <<ref.name, ":", ref.tag>>
    ELSE <<ref.name>>

\* fmt.Errorf("%s isn't allowed: %v", ref.String(), err)
DeniedBecause(ref, err) == RefString(ref) \o <<"isn't allowed", ":">> \o err

\* fmt.Errorf("%s isn't allowed", ref.String())
Denied(ref) == RefString(ref) \o <<"isn't allowed">>

\* p.policyContext.IsRunningImageAllowed(unparsed)
IsRunningImageAllowed(unparsed) == [allowed |-> env.allowed, err |-> env.engErr]

\* unparsed.Manifest()
Manifest(unparsed) ==
    IF env.mfst[unparsed] = NoManifest
    THEN [mfst |-> "", err |-> <<"manifest", "unknown">>]
    ELSE [mfst |-> env.mfst[unparsed], err |-> NoErr]

\* manifest.Digest(mfst): the canonical digest of the manifest's bytes
ManifestDigest(mfst) ==
    IF env.dgstOK
    THEN [dgst |-> IF mfst = "m1" THEN "sha256:m1" ELSE "sha256:m2", err |-> NoErr]
    ELSE [dgst |-> "", err |-> <<"digest", "failed">>]

\* reference.WithDigest(ref, dgst): the name of ref with dgst, the tag dropped
WithDigest(ref, dgst) ==
    IF env.attachOK
    THEN [ref |-> [name |-> ref.name, tag |-> "", digest |-> dgst], err |-> NoErr]
    ELSE [ref |-> NilRef, err |-> <<"invalid", "digest", "format">>]

\* what checkTrusted returns and whom it asked, as a record
Returned(ref, err, asked, fetched) ==
    [ref |-> ref, err |-> err, engine |-> asked, mfst |-> fetched]

\* checkTrusted (unix) that keeps the input reference when the engine allows
CheckTrustedNoPin(ref, unparsed) ==
    LET a == IsRunningImageAllowed(unparsed)
    IN IF ~a.allowed
       THEN Returned(NilRef, IF a.err # NoErr THEN DeniedBecause(ref, a.err)
                             ELSE Denied(ref), <<unparsed>>, <<>>)
       ELSE IF a.err # NoErr THEN Returned(NilRef, a.err, <<unparsed>>, <<>>)
       ELSE Returned(ref, NoErr, <<unparsed>>, <<>>)

\* checkTrusted (unix) that lets a denied image through
CheckTrustedIgnoresDenial(ref, unparsed) ==
    LET m == Manifest(unparsed)
        d == ManifestDigest(m.mfst)
        w == WithDigest(ref, d.dgst)
    IN IF m.err # NoErr THEN Returned(NilRef, m.err, <<unparsed>>, <<unparsed>>)
       ELSE IF d.err # NoErr THEN Returned(NilRef, d.err, <<unparsed>>, <<unparsed>>)
       ELSE IF w.err # NoErr THEN Returned(NilRef, w.err, <<unparsed>>, <<unparsed>>)
       ELSE Returned(w.ref, NoErr, <<unparsed>>, <<unparsed>>)

\* checkTrusted (unix) that drops the engine's reason from the denial
CheckTrustedNoReason(ref, unparsed) ==
    LET a == IsRunningImageAllowed(unparsed)
        m == Manifest(unparsed)
        d == ManifestDigest(m.mfst)
        w == WithDigest(ref, d.dgst)
    IN IF ~a.allowed THEN Returned(NilRef, Denied(ref), <<unparsed>>, <<>>)
       ELSE IF a.err # NoErr THEN Returned(NilRef, a.err, <<unparsed>>, <<>>)
       ELSE IF m.err # NoErr THEN Returned(NilRef, m.err, <<unparsed>>, <<unparsed>>)
       ELSE IF d.err # NoErr THEN Returned(NilRef, d.err, <<unparsed>>, <<unparsed>>)
       ELSE IF w.err # NoErr THEN Returned(NilRef, w.err, <<unparsed>>, <<unparsed>>)
       ELSE Returned(w.ref, NoErr, <<unparsed>>, <<unparsed>>)

\* checkTrusted (unix) that goes on to pin the reference when the engine
\* allows the image and returns an error with it
CheckTrustedSkipsEngineErr(ref, unparsed) ==
    LET a == IsRunningImageAllowed(unparsed)
        m == Manifest(unparsed)
        d == ManifestDigest(m.mfst)
        w == WithDigest(ref, d.dgst)
    IN IF ~a.allowed
       THEN Returned(NilRef, IF a.err # NoErr THEN DeniedBecause(ref, a.err)
                             ELSE Denied(ref), <<unparsed>>, <<>>)
       ELSE IF m.err # NoErr THEN Returned(NilRef, m.err, <<unparsed>>, <<unparsed>>)
       ELSE IF d.err # NoErr THEN Returned(NilRef, d.err, <<unparsed>>, <<unparsed>>)
       ELSE IF w.err # NoErr THEN Returned(NilRef, w.err, <<unparsed>>, <<unparsed>>)
       ELSE Returned(w.ref, NoErr, <<unparsed>>, <<unparsed>>)

\* (p *v2Puller) checkTrusted, non-windows build: its results
CheckTrustedUnix(ref, unparsed) ==
    LET a == IsRunningImageAllowed(unparsed)
        m == Manifest(unparsed)
        d == ManifestDigest(m.mfst)
        w == WithDigest(ref, d.dgst)
    IN IF ~a.allowed
       THEN Returned(NilRef, IF a.err # NoErr THEN DeniedBecause(ref, a.err)
                             ELSE Denied(ref), <<unparsed>>, <<>>)
       ELSE IF a.err # NoErr THEN Returned(NilRef, a.err, <<unparsed>>, <<>>)
       ELSE IF m.err # NoErr THEN Returned(NilRef, m.err, <<unparsed>>, <<unparsed>>)
       ELSE IF d.err # NoErr THEN Returned(NilRef, d.err, <<unparsed>>, <<unparsed>>)
       ELSE IF w.err # NoErr THEN Returned(NilRef, w.err, <<unparsed>>, <<unparsed>>)
       ELSE Returned(w.ref, NoErr, <<unparsed>>, <<unparsed>>)

\* checkTrusted (windows) that pins the reference all the same
CheckTrustedWindowsPins(ref, unparsed) ==
    LET m == Manifest(unparsed)
    IN Returned([name |-> ref.name, tag |-> "", digest |-> ManifestDigest(m.mfst).dgst],
                NoErr, <<>>, <<unparsed>>)

\* (p *v2Puller) checkTrusted, windows build: its results
CheckTrustedWindows(ref, unparsed) == Returned(ref, NoErr, <<>>, <<>>)

\* (p *v2Puller) checkTrusted, non-windows build
checkTrusted_unix(ref, unparsed) ==
    LET r == CheckTrustedUnix(ref, unparsed)
    IN /\ trustIn' = [ref |-> ref, unparsed |-> unparsed]
       /\ originalRef' = ref
       /\ trustRef' = r.ref
       /\ trustErr' = r.err
       /\ engineLog' = engineLog \o r.engine
       /\ manifestLog' = manifestLog \o r.mfst

\* (p *v2Puller) checkTrusted, windows build
checkTrusted_windows(ref, unparsed) ==
    LET r == CheckTrustedWindows(ref, unparsed)
    IN /\ trustIn' = [ref |-> ref, unparsed |-> unparsed]
       /\ originalRef' = originalRef
       /\ trustRef' = r.ref
       /\ trustErr' = r.err
       /\ engineLog' = engineLog \o r.engine
       /\ manifestLog' = manifestLog \o r.mfst

\* configurePolicyContext, non-windows build
configurePolicyContext_unix ==
    /\ policyContext' = IF env.policy = NoErr THEN "pc" ELSE "nil"
    /\ configErr' = env.policy

\* configurePolicyContext, windows build
configurePolicyContext_windows ==
    /\ policyContext' = "nil"
    /\ configErr' = NoErr

\* ----------------------------------------------------- base layer resolver
TypeLayers == "layers"
TypeLayersWithBase == "layers+base"

BaseLayers == {"B1", "B2"}

\* image.NewRootFS()
NewRootFS == [Type |-> TypeLayers, DiffIDs |-> <<>>, BaseLayer |-> ""]

\* (r *RootFS) BaseLayerID(): a hash of r.BaseLayer
BaseLayerID(r) ==
    IF r.BaseLayer = "B1" THEN "idB1"
    ELSE IF r.BaseLayer = "B2" THEN "idB2"
    ELSE "idEmpty"

\* json.Unmarshal of a V1Compatibility string into an image.V1Image
Unmarshal(v1Compatibility) ==
    IF v1Compatibility.json
    THEN [v1img |-> [ID |-> v1Compatibility.ID, Parent |-> v1Compatibility.Parent],
          err |-> NoErr]
    ELSE [v1img |-> [ID |-> "", Parent |-> ""], err |-> <<"invalid", "character">>]

\* the first history entry, in place of the one detectBaseLayer decodes
BaseEntryFirst(mf) == mf.History[1]

\* the history entry detectBaseLayer decodes: m.History[len(m.History)-1]
BaseEntry(mf) == mf.History[Len(mf.History)]

\* the stored images the loop of detectBaseLayer accepts for parent
MatchingImages(store, parent) ==
    {i \in DOMAIN store :
        store[i].Type = TypeLayersWithBase /\ BaseLayerID(store[i]) = parent}

\* what detectBaseLayer leaves: the RootFS, the error, the scans of the store
Resolved(rfs, err, scans) == [rootFS |-> rfs, err |-> err, scans |-> scans]

\* detectBaseLayer (windows) that accepts a stored image of any RootFS type
DetectBaseLayerAnyType(store, mf, rfs) ==
    LET u == Unmarshal(BaseEntry(mf).V1Compatibility)
        found == {i \in DOMAIN store : BaseLayerID(store[i]) = u.v1img.Parent}
    IN IF u.err # NoErr THEN {Resolved(rfs, u.err, 0)}
       ELSE IF u.v1img.Parent = ""
       THEN {Resolved(rfs, <<"Last layer", u.v1img.ID,
                             "does not have a base layer reference">>, 0)}
       ELSE IF found # {}
       THEN {Resolved([rfs EXCEPT !.BaseLayer = store[i].BaseLayer,
                                  !.Type = TypeLayersWithBase], NoErr, 1) :
                i \in found}
       ELSE {Resolved(rfs, <<"Invalid base layer", u.v1img.Parent>>, 1)}

\* detectBaseLayer (windows) whose last error names the layer, not the parent
DetectBaseLayerNamesID(store, mf, rfs) ==
    LET u == Unmarshal(BaseEntry(mf).V1Compatibility)
        found == MatchingImages(store, u.v1img.Parent)
    IN IF u.err # NoErr THEN {Resolved(rfs, u.err, 0)}
       ELSE IF u.v1img.Parent = ""
       THEN {Resolved(rfs, <<"Last layer", u.v1img.ID,
                             "does not have a base layer reference">>, 0)}
       ELSE IF found # {}
       THEN {Resolved([rfs EXCEPT !.BaseLayer = store[i].BaseLayer,
                                  !.Type = TypeLayersWithBase], NoErr, 1) :
                i \in found}
       ELSE {Resolved(rfs, <<"Invalid base layer", u.v1img.ID>>, 1)}

\* detectBaseLayer (windows) that scans the store before it looks at Parent
DetectBaseLayerScanFirst(store, mf, rfs) ==
    LET u == Unmarshal(BaseEntry(mf).V1Compatibility)
        found == MatchingImages(store, u.v1img.Parent)
    IN IF u.err # NoErr THEN {Resolved(rfs, u.err, 0)}
       ELSE IF found # {}
       THEN {Resolved([rfs EXCEPT !.BaseLayer = store[i].BaseLayer,
                                  !.Type = TypeLayersWithBase], NoErr, 1) :
                i \in found}
       ELSE IF u.v1img.Parent = ""
       THEN {Resolved(rfs, <<"Last layer", u.v1img.ID,
                             "does not have a base layer reference">>, 1)}
       ELSE {Resolved(rfs, <<"Invalid base layer", u.v1img.Parent>>, 1)}

\* detectBaseLayer (windows) that sets the type of the RootFS and leaves its
\* BaseLayer as it was
DetectBaseLayerTypeOnly(store, mf, rfs) ==
    LET u == Unmarshal(BaseEntry(mf).V1Compatibility)
        found == MatchingImages(store, u.v1img.Parent)
    IN IF u.err # NoErr THEN {Resolved(rfs, u.err, 0)}
       ELSE IF u.v1img.Parent = ""
       THEN {Resolved(rfs, <<"Last layer", u.v1img.ID,
                             "does not have a base layer reference">>, 0)}
       ELSE IF found # {}
       THEN {Resolved([rfs EXCEPT !.Type = TypeLayersWithBase], NoErr, 1) :
                i \in found}
       ELSE {Resolved(rfs, <<"Invalid base layer", u.v1img.Parent>>, 1)}

\* detectBaseLayer (windows) that accepts a stored layers+base image whatever
\* its base-layer identifier
DetectBaseLayerTypeMatch(store, mf, rfs) ==
    LET u == Unmarshal(BaseEntry(mf).V1Compatibility)
        found == {i \in DOMAIN store : store[i].Type = TypeLayersWithBase}
    IN IF u.err # NoErr THEN {Resolved(rfs, u.err, 0)}
       ELSE IF u.v1img.Parent = ""
       THEN {Resolved(rfs, <<"Last layer", u.v1img.ID,
                             "does not have a base layer reference">>, 0)}
       ELSE IF found # {}
       THEN {Resolved([rfs EXCEPT !.BaseLayer = store[i].BaseLayer,
                                  !.Type = TypeLayersWithBase], NoErr, 1) :
                i \in found}
       ELSE {Resolved(rfs, <<"Invalid base layer", u.v1img.Parent>>, 1)}

\* detectBaseLayer (windows) that sets the type of the RootFS before the scan
\* of the store
DetectBaseLayerTypeFirst(store, mf, rfs) ==
    LET u == Unmarshal(BaseEntry(mf).V1Compatibility)
        found == MatchingImages(store, u.v1img.Parent)
        typed == [rfs EXCEPT !.Type = TypeLayersWithBase]
    IN IF u.err # NoErr THEN {Resolved(rfs, u.err, 0)}
       ELSE IF u.v1img.Parent = ""
       THEN {Resolved(rfs, <<"Last layer", u.v1img.ID,
                             "does not have a base layer reference">>, 0)}
       ELSE IF found # {}
       THEN {Resolved([typed EXCEPT !.BaseLayer = store[i].BaseLayer], NoErr, 1) :
                i \in found}
       ELSE {Resolved(typed, <<"Invalid base layer", u.v1img.Parent>>, 1)}

\* detectBaseLayer, windows build: its possible results. The range over
\* is.Map() meets the images in any order, so any matching image may be the
\* one the loop returns at.
DetectBaseLayerWindows(store, mf, rfs) ==
    LET u == Unmarshal(BaseEntry(mf).V1Compatibility)
        found == MatchingImages(store, u.v1img.Parent)
    IN IF u.err # NoErr THEN {Resolved(rfs, u.err, 0)}
       ELSE IF u.v1img.Parent = ""
       THEN {Resolved(rfs, <<"Last layer", u.v1img.ID,
                             "does not have a base layer reference">>, 0)}
       ELSE IF found # {}
       THEN {Resolved([rfs EXCEPT !.BaseLayer = store[i].BaseLayer,
                                  !.Type = TypeLayersWithBase], NoErr, 1) :
                i \in found}
       ELSE {Resolved(rfs, <<"Invalid base layer", u.v1img.Parent>>, 1)}

\* detectBaseLayer, non-windows build: its result
DetectBaseLayerUnix(store, mf, rfs) == {Resolved(rfs, NoErr, 0)}

\* detectBaseLayer, windows build
detectBaseLayer_windows(mf) ==
    \E r \in DetectBaseLayerWindows(imageStore, mf, rootFS) :
        /\ manifest' = mf
        /\ rootFS' = r.rootFS
        /\ baseErr' = r.err
        /\ mapCalls' = mapCalls + r.scans
        /\ imageStore' = imageStore

\* detectBaseLayer, non-windows build
detectBaseLayer_unix(mf) ==
    \E r \in DetectBaseLayerUnix(imageStore, mf, rootFS) :
        /\ manifest' = mf
        /\ rootFS' = r.rootFS
        /\ baseErr' = r.err
        /\ mapCalls' = mapCalls + r.scans
        /\ imageStore' = imageStore

\* ------------------------------------------------- signatures and sources
\* the image source of a reference
SourceOf(ref) == IF ref.name = "repo/image" THEN "src1" ELSE "src2"

\* (p *v2Puller) ciImage, non-windows build: the unparsed image or the error
\* of parsing the reference or of opening the image source
ciImage_unix(ref) ==
    IF env.source # NoErr
    THEN [unparsed |-> "nil", err |-> env.source]
    ELSE [unparsed |-> SourceOf(ref), err |-> NoErr]

\* (p *v2Puller) ciImage, windows build
ciImage_windows(ref) == [unparsed |-> "nil", err |-> NoErr]

\* (p *v2Puller) storeSignatures, non-windows build
storeSignatures_unix(unparsed) ==
    IF env.parse # NoErr
    THEN /\ sigErr' = env.parse
         /\ sigStore' = sigStore
    ELSE /\ sigErr' = env.record
         /\ sigStore' = IF env.record = NoErr THEN sigStore \cup {unparsed}
                        ELSE sigStore

\* storeSignatures (windows) that records the image in the signature store
storeSignaturesRecords(unparsed) ==
    /\ sigErr' = NoErr
    /\ sigStore' = sigStore \cup {unparsed}

\* (p *v2Puller) storeSignatures, windows build
storeSignatures_windows(unparsed) ==
    /\ sigErr' = NoErr
    /\ sigStore' = sigStore

\* -------------------------------------------------------------- tlsconfig
\* tls.VerifyClientCertIfGiven, of tls.ClientAuthType
VerifyClientCertIfGiven == 3

ClientAuthTypes == 0..4

\* the files a call may name, and the system's certificates
Paths == {"system", "ca.pem", "cert.pem", "key.pem"}

\* what a file holds: nothing (it is missing), no PEM block, a PEM block, an
\* encrypted PEM block
FileSystems ==
    {f \in [Paths -> {"missing", "garbage", "pem", "encrypted"}] :
        /\ f["system"] \in {"missing", "pem"}
        /\ f["ca.pem"] # "encrypted"
        /\ f["cert.pem"] # "encrypted"}

\* the passphrase the encrypted key was encrypted with
KeyPassphrase == "secret"

\* Options
TLSOptions ==
    [CAFile : {"", "ca.pem"}, CertFile : {"", "cert.pem"}, KeyFile : {"", "key.pem"},
     InsecureSkipVerify : BOOLEAN, ClientAuth : ClientAuthTypes,
     Passphrase : {"", KeyPassphrase}]

\* a *tls.Config: nil, or the fields the functions set
NilConfig ==
    [nil |-> TRUE, InsecureSkipVerify |-> FALSE, ClientAuth |-> 0, RootCAs |-> "nil",
     ClientCAs |-> "nil", Certificates |-> <<>>]

\* ClientDefault and ServerDefault, but for the protocol version and ciphers
DefaultConfig == [NilConfig EXCEPT !.nil = FALSE]

\* what a function of the package leaves: the config, the error, the loaders
\* of a key pair it called
TLSResult(config, err, loads) == [config |-> config, err |-> err, loads |-> loads]

\* ioutil.ReadFile(path)
ReadFile(path) ==
    IF path = "" \/ tlsFiles[path] = "missing"
    THEN [data |-> "", err |-> <<"open", path, "no such file or directory">>]
    ELSE [data |-> tlsFiles[path], err |-> NoErr]

\* tls.X509KeyPair(certPEMBlock, keyPEMBlock)
X509KeyPair(certPEM, keyPEM) ==
    IF certPEM # "pem"
    THEN [cert |-> "", err |-> <<"tls", "failed to find any PEM data in certificate input">>]
    ELSE IF keyPEM # "pem"
    THEN [cert |-> "", err |-> <<"tls", "failed to parse private key">>]
    ELSE [cert |-> "keypair", err |-> NoErr]

\* tls.LoadX509KeyPair(certFile, keyFile)
LoadX509KeyPair(certFile, keyFile) ==
    LET c == ReadFile(certFile)
        k == ReadFile(keyFile)
    IN IF c.err # NoErr THEN [cert |-> "", err |-> c.err]
       ELSE IF k.err # NoErr THEN [cert |-> "", err |-> k.err]
       ELSE X509KeyPair(c.data, k.data)

\* os.IsNotExist(err)
IsNotExist(err) == err[1] = "open"

\* errors.Wrap(err, message)
Wrap(err, message) == <<message>> \o err

\* getPrivateKey(keyBytes, passphrase)
getPrivateKey(keyBytes, passphrase) ==
    IF keyBytes = "garbage"
    THEN [key |-> "", err |-> <<"no valid private key found">>]
    ELSE IF keyBytes = "encrypted" /\ passphrase # KeyPassphrase
    THEN [key |-> "", err |-> <<"private key is encrypted, but could not decrypt it">>]
    ELSE [key |-> "pem", err |-> NoErr]

\* getCert(options): the certificates, the error, whether it read the files
getCert(options) ==
    LET errMessage == "Could not load X509 key pair"
        c == ReadFile(options.CertFile)
        k == ReadFile(options.KeyFile)
        p == getPrivateKey(k.data, options.Passphrase)
        x == X509KeyPair(c.data, p.key)
    IN IF options.CertFile = "" /\ options.KeyFile = ""
       THEN [certs |-> <<>>, err |-> NoErr, loads |-> <<>>]
       ELSE IF c.err # NoErr
       THEN [certs |-> <<>>, err |-> Wrap(c.err, errMessage), loads |-> <<"getCert">>]
       ELSE IF k.err # NoErr
       THEN [certs |-> <<>>, err |-> Wrap(k.err, errMessage), loads |-> <<"getCert">>]
       ELSE IF p.err # NoErr
       THEN [certs |-> <<>>, err |-> Wrap(p.err, errMessage), loads |-> <<"getCert">>]
       ELSE IF x.err # NoErr
       THEN [certs |-> <<>>, err |-> Wrap(x.err, errMessage), loads |-> <<"getCert">>]
       ELSE [certs |-> <<x.cert>>, err |-> NoErr, loads |-> <<"getCert">>]

\* certPool(caFile)
certPool(caFile) ==
    LET pem == ReadFile(caFile)
    IN IF tlsFiles["system"] # "pem"
       THEN [pool |-> "nil", err |-> <<"failed to read system certificates">>]
       ELSE IF pem.err # NoErr
       THEN [pool |-> "nil", err |-> <<"could not read CA certificate", caFile>>]
       ELSE IF pem.data # "pem"
       THEN [pool |-> "nil",
             err |-> <<"failed to append certificates from PEM file", caFile>>]
       ELSE [pool |-> "pool", err |-> NoErr]

\* Client as the comment of Options describes it: with an empty CertFile or
\* KeyFile it loads no key pair
ClientBothNamed(options) ==
    LET CAs == IF ~options.InsecureSkipVerify /\ options.CAFile # ""
               THEN certPool(options.CAFile)
               ELSE [pool |-> "nil", err |-> NoErr]
        named == options.CertFile # "" /\ options.KeyFile # ""
        l == LoadX509KeyPair(options.CertFile, options.KeyFile)
        g == getCert(options)
        tlsConfig == [DefaultConfig EXCEPT
                          !.InsecureSkipVerify = options.InsecureSkipVerify,
                          !.RootCAs = CAs.pool]
    IN IF CAs.err # NoErr THEN TLSResult(NilConfig, CAs.err, <<>>)
       ELSE IF named /\ l.err # NoErr
       THEN TLSResult(NilConfig,
                      <<"Could not load X509 key pair">> \o l.err
                          \o <<"Make sure the key is not encrypted">>,
                      <<"LoadX509KeyPair">>)
       ELSE IF named /\ g.err # NoErr
       THEN TLSResult(NilConfig, g.err, <<"LoadX509KeyPair">> \o g.loads)
       ELSE IF named
       THEN TLSResult([tlsConfig EXCEPT !.Certificates = g.certs], NoErr,
                      <<"LoadX509KeyPair">> \o g.loads)
       ELSE TLSResult(tlsConfig, NoErr, <<>>)

\* Client(options)
Client(options) ==
    LET CAs == IF ~options.InsecureSkipVerify /\ options.CAFile # ""
               THEN certPool(options.CAFile)
               ELSE [pool |-> "nil", err |-> NoErr]
        named == options.CertFile # "" \/ options.KeyFile # ""
        l == LoadX509KeyPair(options.CertFile, options.KeyFile)
        g == getCert(options)
        called == IF named THEN <<"LoadX509KeyPair">> ELSE <<>>
        tlsConfig == [DefaultConfig EXCEPT
                          !.InsecureSkipVerify = options.InsecureSkipVerify,
                          !.RootCAs = CAs.pool]
    IN IF CAs.err # NoErr THEN TLSResult(NilConfig, CAs.err, <<>>)
       ELSE IF named /\ l.err # NoErr
       THEN TLSResult(NilConfig,
                      <<"Could not load X509 key pair">> \o l.err
                          \o <<"Make sure the key is not encrypted">>,
                      called)
       ELSE IF g.err # NoErr THEN TLSResult(NilConfig, g.err, called \o g.loads)
       ELSE TLSResult([tlsConfig EXCEPT !.Certificates = g.certs], NoErr,
                      called \o g.loads)

\* Server(options)
Server(options) ==
    LET l == LoadX509KeyPair(options.CertFile, options.KeyFile)
        CAs == IF options.ClientAuth >= VerifyClientCertIfGiven
               THEN certPool(options.CAFile)
               ELSE [pool |-> "nil", err |-> NoErr]
        tlsConfig == [DefaultConfig EXCEPT !.ClientAuth = options.ClientAuth,
                                           !.Certificates = <<l.cert>>,
                                           !.ClientCAs = CAs.pool]
    IN IF l.err # NoErr /\ IsNotExist(l.err)
       THEN TLSResult(NilConfig,
                      <<"Could not load X509 key pair", options.CertFile,
                        options.KeyFile>> \o l.err,
                      <<"LoadX509KeyPair">>)
       ELSE IF l.err # NoErr
       THEN TLSResult(NilConfig,
                      <<"Error reading X509 key pair", options.CertFile,
                        options.KeyFile>> \o l.err
                          \o <<"Make sure the key is not encrypted.">>,
                      <<"LoadX509KeyPair">>)
       ELSE IF CAs.err # NoErr THEN TLSResult(NilConfig, CAs.err, <<"LoadX509KeyPair">>)
       ELSE TLSResult(tlsConfig, NoErr, <<"LoadX509KeyPair">>)

\* -------------------------------------------------------------------- rpm
\* the white space strings.TrimSpace cuts
WhiteSpace == {" ", "\n"}

\* strings.TrimSpace(s), s a sequence of characters and words
RECURSIVE TrimLeft(_)
TrimLeft(s) ==
    IF s # <<>> /\ Head(s) \in WhiteSpace THEN TrimLeft(Tail(s)) ELSE s

RECURSIVE TrimRight(_)
TrimRight(s) ==
    IF s # <<>> /\ s[Len(s)] \in WhiteSpace
    THEN TrimRight(SubSeq(s, 1, Len(s) - 1)) ELSE s

TrimSpace(s) == TrimRight(TrimLeft(s))

\* filepath.IsAbs(name)
IsAbs(name) == name # <<>> /\ Head(name) = "/"

\* the arguments of a call of Version and the answers of its environment:
\* exec.LookPath, cmd.Start, and what rpm writes and exits with if it is left
\* to run
RpmCalls ==
    [name : {<<"docker">>, <<"/", "usr", "/", "bin", "/", "docker">>},
     look : {NoErr, <<"executable file not found in $PATH">>},
     start : {NoErr, <<"fork/exec", "permission denied">>},
     stdout : {<<>>, <<"docker-1.12", "\n">>, <<" ", "package", " ", "docker", " ", "\n">>},
     status : {NoErr, <<"exit status 1">>}]

\* no call of Version made
RpmIdle ==
    /\ rpmCall = [name |-> <<"docker">>, look |-> NoErr, start |-> NoErr,
                  stdout |-> <<>>, status |-> NoErr]
    /\ rpmOptions = <<>>
    /\ cmdProcess = "nil"
    /\ cmdStdout = <<>>
    /\ waiter = "none"
    /\ waitErr = NoErr
    /\ timeout = "unset"
    /\ versionOut = <<>>
    /\ versionErr = NoErr

\* options := "-q"; if filepath.IsAbs(name) { options = options + "f" };
\* rpmPath, err := exec.LookPath("rpm"); if err != nil { return "", err }
LookPath ==
    /\ pc = "LookPath"
    /\ rpmOptions' = IF IsAbs(rpmCall.name) THEN <<"-q", "f">> ELSE <<"-q">>
    /\ IF rpmCall.look # NoErr
       THEN /\ pc' = "returned"
            /\ versionOut' = <<>>
            /\ versionErr' = rpmCall.look
       ELSE /\ pc' = "cmd.Start"
            /\ UNCHANGED <<versionOut, versionErr>>
    /\ UNCHANGED <<nonRpmVars, rpmCall, cmdProcess, cmdStdout, waiter, waitErr, timeout>>

\* cmd := exec.Command(rpmPath, options, name); cmd.Stdout = &out;
\* cmd.Start(), whose error is dropped
CmdStart ==
    /\ pc = "cmd.Start"
    /\ cmdProcess' = IF rpmCall.start = NoErr THEN "running" ELSE "nil"
    /\ pc' = "go"
    /\ UNCHANGED <<nonRpmVars, rpmCall, rpmOptions, cmdStdout, waiter, waitErr, timeout, versionOut,
                   versionErr>>

\* done := make(chan error); go func() { done <- cmd.Wait() }()
Go ==
    /\ pc = "go"
    /\ waiter' = "Wait"
    /\ pc' = "After"
    /\ UNCHANGED <<nonRpmVars, rpmCall, rpmOptions, cmdProcess, cmdStdout, waitErr, timeout, versionOut,
                   versionErr>>

\* timeout := time.After(10 * time.Second)
After ==
    /\ pc = "After"
    /\ timeout' = "armed"
    /\ pc' = "select"
    /\ UNCHANGED <<nonRpmVars, rpmCall, rpmOptions, cmdProcess, cmdStdout, waiter, waitErr, versionOut,
                   versionErr>>

\* rpm writes its answer and exits
RpmExits ==
    /\ cmdProcess = "running"
    /\ cmdProcess' = "exited"
    /\ cmdStdout' = rpmCall.stdout
    /\ UNCHANGED <<nonRpmVars, pc, rpmCall, rpmOptions, waiter, waitErr, timeout, versionOut,
                   versionErr>>

\* the ten seconds pass
TimeoutFires ==
    /\ timeout = "armed"
    /\ timeout' = "fired"
    /\ UNCHANGED <<nonRpmVars, pc, rpmCall, rpmOptions, cmdProcess, cmdStdout, waiter, waitErr, versionOut,
                   versionErr>>

\* cmd.Wait() returns in the goroutine: the process was not started, or has
\* exited, or was killed
WaitReturns ==
    /\ waiter = "Wait"
    /\ cmdProcess # "running"
    /\ waitErr' = IF cmdProcess = "nil" THEN <<"exec: not started">>
                  ELSE IF cmdProcess = "killed" THEN <<"signal: killed">>
                  ELSE rpmCall.status
    /\ waiter' = "send"
    /\ UNCHANGED <<nonRpmVars, pc, rpmCall, rpmOptions, cmdProcess, cmdStdout, timeout, versionOut,
                   versionErr>>

\* case <-timeout: cmd.Process.Kill(), a nil dereference when the process
\* was not started
SelectTimeout ==
    /\ pc = "select"
    /\ timeout = "fired"
    /\ IF cmdProcess = "nil"
       THEN /\ pc' = "panicked"
            /\ waiter' = "crashed"
            /\ UNCHANGED cmdProcess
       ELSE /\ pc' = "return timed out"
            /\ cmdProcess' = IF cmdProcess = "running" THEN "killed" ELSE cmdProcess
            /\ UNCHANGED waiter
    /\ UNCHANGED <<nonRpmVars, rpmCall, rpmOptions, cmdStdout, waitErr, timeout, versionOut, versionErr>>

\* return "rpm timed out", errors.New("rpm timed out")
ReturnTimedOut ==
    /\ pc = "return timed out"
    /\ versionOut' = <<"rpm timed out">>
    /\ versionErr' = <<"rpm timed out">>
    /\ pc' = "returned"
    /\ UNCHANGED <<nonRpmVars, rpmCall, rpmOptions, cmdProcess, cmdStdout, waiter, waitErr, timeout>>

\* case err := <-done: the send of the goroutine and the receive of select
\* meet on the unbuffered channel; return strings.TrimSpace(out.String()), err
SelectDone ==
    /\ pc = "select"
    /\ waiter = "send"
    /\ waiter' = "exited"
    /\ versionOut' = TrimSpace(cmdStdout)
    /\ versionErr' = waitErr
    /\ pc' = "returned"
    /\ UNCHANGED <<nonRpmVars, rpmCall, rpmOptions, cmdProcess, cmdStdout, waitErr, timeout>>

\* ------------------------------------------------------------ the build
\* the functions of the file the build compiles in
configurePolicyContext ==
    IF variant = "windows" THEN configurePolicyContext_windows
    ELSE configurePolicyContext_unix

ciImage(ref) == IF variant = "windows" THEN ciImage_windows(ref) ELSE ciImage_unix(ref)

checkTrusted(ref, unparsed) ==
    IF variant = "windows" THEN checkTrusted_windows(ref, unparsed)
    ELSE checkTrusted_unix(ref, unparsed)

open(d) == IF variant = "windows" THEN open_windows(d) ELSE open_unix(d)

detectBaseLayer(mf) ==
    IF variant = "windows" THEN detectBaseLayer_windows(mf)
    ELSE detectBaseLayer_unix(mf)

storeSignatures(unparsed) ==
    IF variant = "windows" THEN storeSignatures_windows(unparsed)
    ELSE storeSignatures_unix(unparsed)

\* ------------------------------------------------------------ environments
PolicyErrs == {<<"no", "default", "policy">>, <<"invalid", "policy">>}
EngineErrs == {<<"signature", "rejected">>}

\* every collaborator answers without an error
DefaultEnv ==
    [url |-> [u \in URLSet |-> NoErr],
     blob |-> [d \in Digests |-> NoErr],
     policy |-> NoErr,
     allowed |-> TRUE,
     engErr |-> NoErr,
     mfst |-> [s \in Sources |-> "m1"],
     dgstOK |-> TRUE,
     attachOK |-> TRUE,
     source |-> NoErr,
     parse |-> NoErr,
     record |-> NoErr,
     fetch |-> NoErr,
     put |-> NoErr]

OpenEnvs ==
    {[DefaultEnv EXCEPT !.url = u, !.blob = b] :
        u \in [URLSet -> Outcomes], b \in [Digests -> Outcomes]}

\* the answers of image.FromUnparsedImage and of RecordImage: both succeed,
\* or one of them fails
RecorderEnvs ==
    {[parse |-> NoErr, record |-> NoErr],
     [parse |-> <<"unsupported", "manifest">>, record |-> NoErr],
     [parse |-> NoErr, record |-> <<"store", "unavailable">>]}

TrustEnvs ==
    {[DefaultEnv EXCEPT !.policy = p, !.allowed = a, !.engErr = e, !.mfst = m,
                        !.dgstOK = d, !.attachOK = w, !.parse = s.parse,
                        !.record = s.record] :
        p \in {NoErr} \cup PolicyErrs, a \in BOOLEAN, e \in {NoErr} \cup EngineErrs,
        m \in [Sources -> Manifests \cup {NoManifest}], d \in BOOLEAN, w \in BOOLEAN,
        s \in RecorderEnvs}

LayerDescriptors == [digest : Digests, URLs : InjSeqs(URLSet, MaxURLs)]

\* no call of open made yet
OpenIdle ==
    /\ rsc = Nil
    /\ openErr = NoErr
    /\ contacted = <<>>
    /\ openStreams = {}
    /\ blobLog = <<>>

\* no policy context configured and no call of checkTrusted made yet
TrustIdle ==
    /\ policyContext = "nil"
    /\ configErr = NoErr
    /\ originalRef = NilRef
    /\ trustRef = NilRef
    /\ trustErr = NoErr
    /\ engineLog = <<>>
    /\ manifestLog = <<>>

\* the images a store may hold
StoredRootFS ==
    {[Type |-> TypeLayers, DiffIDs |-> <<>>, BaseLayer |-> ""],
     [Type |-> TypeLayers, DiffIDs |-> <<>>, BaseLayer |-> "B1"]}
    \cup {[Type |-> TypeLayersWithBase, DiffIDs |-> <<>>, BaseLayer |-> b] :
            b \in BaseLayers}

ImageIDs == 1..MaxImages

ImageStores == UNION {[D -> StoredRootFS] : D \in SUBSET ImageIDs}

\* the V1Compatibility strings of a history entry: undecodable, or the JSON
\* of a V1Image with its ID and Parent
V1Compatibilities ==
    {[json |-> FALSE, ID |-> "", Parent |-> ""]}
    \cup [json : {TRUE}, ID : {"layer1", "layer2"}, Parent : {"", "idB1", "idZ"}]

Schema1Manifests ==
    {[History |-> h] :
        h \in {s \in SeqsOver([V1Compatibility : V1Compatibilities], MaxHist) :
                  Len(s) >= 1}}

\* no call of detectBaseLayer made yet
BaseIdle ==
    /\ rootFS = NewRootFS
    /\ baseErr = NoErr
    /\ mapCalls = 0

\* no pull under way
PullIdle ==
    /\ unparsedImg = "nil"
    /\ committed = <<>>
    /\ failure = "none"
    /\ sigErr = NoErr
    /\ sigStore = {}
    /\ opened = <<>>
    /\ fetchLog = <<>>
    /\ resolverCalls = 0
    /\ cancelSignal = FALSE
    /\ commitsAtCancel = 0

\* no call of tlsconfig made
TLSIdle ==
    /\ tlsOptions = [CAFile |-> "", CertFile |-> "", KeyFile |-> "",
                     InsecureSkipVerify |-> FALSE, ClientAuth |-> 0, Passphrase |-> ""]
    /\ tlsFiles = [p \in Paths |-> "missing"]
    /\ tlsReturned = NilConfig
    /\ tlsErr = NoErr
    /\ tlsLoads = <<>>

vars == <<variant, pc, env, openVars, trustVars, baseVars, pullVars, tlsVars, rpmVars>>

\* ------------------------------------------------- specification: open alone
InitOpen ==
    /\ variant \in Variants
    /\ pc = "call"
    /\ env \in OpenEnvs
    /\ ld \in LayerDescriptors
    /\ OpenIdle
    /\ TrustIdle
    /\ trustIn = [ref |-> NilRef, unparsed |-> "src1"]
    /\ PullIdle
    /\ pullRef = NilRef
    /\ BaseIdle
    /\ imageStore = <<>>
    /\ manifest = [History |-> <<>>]
    /\ TLSIdle
    /\ RpmIdle

OpenWindows ==
    /\ pc = "call"
    /\ variant = "windows"
    /\ open_windows(ld)
    /\ pc' = "returned"
    /\ UNCHANGED <<rpmVars, tlsVars, variant, env, trustVars, baseVars, pullVars>>

OpenUnix ==
    /\ pc = "call"
    /\ variant = "unix"
    /\ open_unix(ld)
    /\ pc' = "returned"
    /\ UNCHANGED <<rpmVars, tlsVars, variant, env, trustVars, baseVars, pullVars>>

NextOpen == OpenWindows \/ OpenUnix

SpecOpen == InitOpen /\ [][NextOpen]_vars

\* ------------------------------------------- specification: trust gate alone
InitTrust ==
    /\ variant \in Variants
    /\ pc = "start"
    /\ env \in TrustEnvs
    /\ ld = [digest |-> 1, URLs |-> <<>>]
    /\ OpenIdle
    /\ TrustIdle
    /\ trustIn \in [ref : Refs, unparsed : Sources]
    /\ PullIdle
    /\ pullRef = NilRef
    /\ BaseIdle
    /\ imageStore = <<>>
    /\ manifest = [History |-> <<>>]
    /\ TLSIdle
    /\ RpmIdle

ConfigureUnix ==
    /\ pc = "start"
    /\ variant = "unix"
    /\ configurePolicyContext_unix
    /\ pc' = IF env.policy = NoErr THEN "configured" ELSE "failed"
    /\ UNCHANGED <<rpmVars, tlsVars, variant, env, openVars, baseVars, pullVars, originalRef, trustIn, trustRef,
                   trustErr, engineLog, manifestLog>>

ConfigureWindows ==
    /\ pc = "start"
    /\ variant = "windows"
    /\ configurePolicyContext_windows
    /\ pc' = "configured"
    /\ UNCHANGED <<rpmVars, tlsVars, variant, env, openVars, baseVars, pullVars, originalRef, trustIn, trustRef,
                   trustErr, engineLog, manifestLog>>

TrustUnix ==
    /\ pc = "configured"
    /\ variant = "unix"
    /\ checkTrusted_unix(trustIn.ref, trustIn.unparsed)
    /\ pc' = "returned"
    /\ UNCHANGED <<rpmVars, tlsVars, variant, env, openVars, baseVars, pullVars, policyContext,
                   configErr>>

TrustWindows ==
    /\ pc = "configured"
    /\ variant = "windows"
    /\ checkTrusted_windows(trustIn.ref, trustIn.unparsed)
    /\ pc' = "returned"
    /\ UNCHANGED <<rpmVars, tlsVars, variant, env, openVars, baseVars, pullVars, policyContext,
                   configErr>>

\* the signatures of an image that passed the gate are recorded
SignUnix ==
    /\ pc = "returned"
    /\ variant = "unix"
    /\ trustErr = NoErr
    /\ storeSignatures_unix(trustIn.unparsed)
    /\ pc' = "recorded"
    /\ UNCHANGED <<rpmVars, tlsVars, variant, env, openVars, trustVars, baseVars, pullRef, unparsedImg,
                   committed, failure, opened, fetchLog, resolverCalls, cancelSignal,
                   commitsAtCancel>>

SignWindows ==
    /\ pc = "returned"
    /\ variant = "windows"
    /\ trustErr = NoErr
    /\ storeSignatures_windows(trustIn.unparsed)
    /\ pc' = "recorded"
    /\ UNCHANGED <<rpmVars, tlsVars, variant, env, openVars, trustVars, baseVars, pullRef, unparsedImg,
                   committed, failure, opened, fetchLog, resolverCalls, cancelSignal,
                   commitsAtCancel>>

NextTrust ==
    \/ ConfigureUnix
    \/ ConfigureWindows
    \/ TrustUnix
    \/ TrustWindows
    \/ SignUnix
    \/ SignWindows

SpecTrust == InitTrust /\ [][NextTrust]_vars

\* ------------------------------------ specification: detectBaseLayer alone
InitBase ==
    /\ variant \in Variants
    /\ pc = "call"
    /\ env = DefaultEnv
    /\ ld = [digest |-> 1, URLs |-> <<>>]
    /\ OpenIdle
    /\ TrustIdle
    /\ trustIn = [ref |-> NilRef, unparsed |-> "src1"]
    /\ PullIdle
    /\ pullRef = NilRef
    /\ BaseIdle
    /\ imageStore \in ImageStores
    /\ manifest \in Schema1Manifests
    /\ TLSIdle
    /\ RpmIdle

BaseWindows ==
    /\ pc = "call"
    /\ variant = "windows"
    /\ detectBaseLayer_windows(manifest)
    /\ pc' = "returned"
    /\ UNCHANGED <<rpmVars, tlsVars, variant, env, openVars, trustVars, pullVars>>

BaseUnix ==
    /\ pc = "call"
    /\ variant = "unix"
    /\ detectBaseLayer_unix(manifest)
    /\ pc' = "returned"
    /\ UNCHANGED <<rpmVars, tlsVars, variant, env, openVars, trustVars, pullVars>>

NextBase == BaseWindows \/ BaseUnix

SpecBase == InitBase /\ [][NextBase]_vars

\* -------------------------------------------- specification: tlsconfig alone
InitTLS ==
    /\ variant = "unix"
    /\ pc = "call"
    /\ env = DefaultEnv
    /\ ld = [digest |-> 1, URLs |-> <<>>]
    /\ OpenIdle
    /\ TrustIdle
    /\ trustIn = [ref |-> NilRef, unparsed |-> "src1"]
    /\ PullIdle
    /\ pullRef = NilRef
    /\ BaseIdle
    /\ imageStore = <<>>
    /\ manifest = [History |-> <<>>]
    /\ tlsOptions \in TLSOptions
    /\ tlsFiles \in FileSystems
    /\ tlsReturned = NilConfig
    /\ tlsErr = NoErr
    /\ tlsLoads = <<>>
    /\ RpmIdle

CallClient ==
    /\ pc = "call"
    /\ LET r == Client(tlsOptions)
       IN /\ tlsReturned' = r.config
          /\ tlsErr' = r.err
          /\ tlsLoads' = r.loads
    /\ pc' = "client"
    /\ UNCHANGED <<rpmVars, tlsOptions, tlsFiles, variant, env, openVars, trustVars, baseVars,
                   pullVars>>

CallServer ==
    /\ pc = "call"
    /\ LET r == Server(tlsOptions)
       IN /\ tlsReturned' = r.config
          /\ tlsErr' = r.err
          /\ tlsLoads' = r.loads
    /\ pc' = "server"
    /\ UNCHANGED <<rpmVars, tlsOptions, tlsFiles, variant, env, openVars, trustVars, baseVars,
                   pullVars>>

NextTLS == CallClient \/ CallServer

SpecTLS == InitTLS /\ [][NextTLS]_vars

\* ---------------------------------------------- specification: rpm.Version
InitRpm ==
    /\ variant = "unix"
    /\ pc = "LookPath"
    /\ env = DefaultEnv
    /\ ld = [digest |-> 1, URLs |-> <<>>]
    /\ OpenIdle
    /\ TrustIdle
    /\ trustIn = [ref |-> NilRef, unparsed |-> "src1"]
    /\ PullIdle
    /\ pullRef = NilRef
    /\ BaseIdle
    /\ imageStore = <<>>
    /\ manifest = [History |-> <<>>]
    /\ TLSIdle
    /\ rpmCall \in RpmCalls
    /\ rpmOptions = <<>>
    /\ cmdProcess = "nil"
    /\ cmdStdout = <<>>
    /\ waiter = "none"
    /\ waitErr = NoErr
    /\ timeout = "unset"
    /\ versionOut = <<>>
    /\ versionErr = NoErr

NextRpm ==
    \/ LookPath
    \/ CmdStart
    \/ Go
    \/ After
    \/ RpmExits
    \/ TimeoutFires
    \/ WaitReturns
    \/ SelectTimeout
    \/ ReturnTimedOut
    \/ SelectDone

\* the scheduler runs every goroutine that can take a step, the timer fires,
\* and a killed process is reaped; rpm left alone may never exit
SpecRpm ==
    /\ InitRpm
    /\ [][NextRpm]_vars
    /\ WF_vars(LookPath)
    /\ WF_vars(CmdStart)
    /\ WF_vars(Go)
    /\ WF_vars(After)
    /\ WF_vars(TimeoutFires)
    /\ WF_vars(WaitReturns)
    /\ WF_vars(SelectTimeout)
    /\ WF_vars(ReturnTimedOut)
    /\ WF_vars(SelectDone)

\* ------------------------------------------------------------- the puller
\* the key of the image being pulled in the image store
PulledImage == 0

\* the image of the pull is visible to the readers of the store
Visible == PulledImage \in DOMAIN imageStore

\* the kind of a failure, from the error that caused it
FailureKind(err) ==
    IF err \in IOErrs \/ err = <<"manifest", "unknown">> THEN "TransferError"
    ELSE IF err[1] = "Last layer" \/ err = <<"invalid", "character">>
    THEN "MalformedManifest"
    ELSE IF err[1] = "Invalid base layer" THEN "UnresolvedBaseLayer"
    ELSE IF err = <<"digest", "failed">> \/ err = <<"invalid", "digest", "format">>
    THEN "DigestComputationError"
    ELSE "PolicyDenied"

PullRefs ==
    {[name |-> "repo/image", tag |-> "latest", digest |-> ""],
     [name |-> "repo/image", tag |-> "", digest |-> "sha256:old"]}

PullStores ==
    {<<>>,
     <<[Type |-> TypeLayersWithBase, DiffIDs |-> <<>>, BaseLayer |-> "B1"]>>,
     <<[Type |-> TypeLayers, DiffIDs |-> <<>>, BaseLayer |-> "B1"]>>}

PullV1Compatibilities ==
    {[json |-> FALSE, ID |-> "", Parent |-> ""]}
    \cup [json : {TRUE}, ID : {"layer1"}, Parent : {"", "idB1", "idZ"}]

\* the manifests of a pull: the entry the resolver decodes is any of the
\* above, the entries before it declare the parent of a stored base layer
PullManifests ==
    {[History |-> [i \in 1..n |->
                      IF i = n THEN [V1Compatibility |-> v]
                      ELSE [V1Compatibility |->
                                [json |-> TRUE, ID |-> "layer1", Parent |-> "idB1"]]]] :
        n \in 1..MaxHist, v \in PullV1Compatibilities}

\* a layer has no alternate URLs or all of them
PullURLLists == {<<>>, [i \in 1..MaxURLs |-> i]}

\* the environments of a pull: one collaborator fails, the others answer
PullEnvs ==
    {[DefaultEnv EXCEPT !.url = u, !.record = r] :
        u \in {[x \in URLSet |-> NoErr], [x \in URLSet |-> <<"e1">>],
               [x \in URLSet |-> IF x = 1 THEN <<"e2">> ELSE NoErr]},
        r \in {NoErr, <<"store", "unavailable">>}}
    \cup {[DefaultEnv EXCEPT !.blob = [x \in Digests |-> IF x = d THEN <<"e1">> ELSE NoErr]] :
            d \in Digests}
    \cup {[DefaultEnv EXCEPT !.allowed = FALSE, !.engErr = e] : e \in {NoErr} \cup EngineErrs}
    \cup {[DefaultEnv EXCEPT !.engErr = e] : e \in EngineErrs}
    \cup {[DefaultEnv EXCEPT !.policy = e] : e \in PolicyErrs}
    \cup {[DefaultEnv EXCEPT !.mfst = [x \in Sources |-> NoManifest]],
          [DefaultEnv EXCEPT !.dgstOK = FALSE],
          [DefaultEnv EXCEPT !.attachOK = FALSE],
          [DefaultEnv EXCEPT !.source = <<"e1">>],
          [DefaultEnv EXCEPT !.parse = <<"unsupported", "manifest">>],
          [DefaultEnv EXCEPT !.fetch = <<"e1">>],
          [DefaultEnv EXCEPT !.put = <<"e2">>]}

Init ==
    /\ variant \in Variants
    /\ pc = "Start"
    /\ env \in PullEnvs
    /\ ld = [digest |-> 1, URLs |-> <<>>]
    /\ OpenIdle
    /\ TrustIdle
    /\ trustIn = [ref |-> NilRef, unparsed |-> "src1"]
    /\ BaseIdle
    /\ imageStore \in PullStores
    /\ manifest = [History |-> <<>>]
    /\ PullIdle
    /\ pullRef \in PullRefs
    /\ TLSIdle
    /\ RpmIdle

\* the layers of the manifest, by their place in the history
Layers == 1..Len(manifest.History)

\* the layers whose open has not been called yet
Unfetched == Layers \ (DOMAIN opened \cup 1..Len(committed))

\* the open streams once the stream of layer i is closed
CloseOpened(i) ==
    IF \E j \in DOMAIN opened \ {i} : opened[j] = opened[i]
    THEN openStreams
    ELSE openStreams \ {opened[i]}

\* Start: the puller is made with the policy context of the build
Start ==
    /\ pc = "Start"
    /\ ~cancelSignal
    /\ configurePolicyContext
    /\ pc' = IF configErr' = NoErr THEN "ResolvingManifest" ELSE "Failed"
    /\ failure' = IF configErr' = NoErr THEN "none" ELSE FailureKind(configErr')
    /\ UNCHANGED <<rpmVars, tlsVars, variant, env, openVars, baseVars, originalRef, trustIn, trustRef,
                   trustErr, engineLog, manifestLog, pullRef, unparsedImg, committed,
                   sigErr, sigStore, opened, fetchLog, resolverCalls, cancelSignal,
                   commitsAtCancel>>

\* ResolvingManifest: the registry serves the manifest of the reference
ResolveManifest ==
    /\ pc = "ResolvingManifest"
    /\ ~cancelSignal
    /\ IF env.fetch # NoErr
       THEN /\ pc' = "Failed"
            /\ failure' = FailureKind(env.fetch)
            /\ manifest' = manifest
       ELSE /\ pc' = "PolicyCheck"
            /\ failure' = "none"
            /\ manifest' \in PullManifests
    /\ UNCHANGED <<rpmVars, tlsVars, variant, env, openVars, trustVars, imageStore, rootFS, baseErr,
                   mapCalls, pullRef, unparsedImg, committed, sigErr, sigStore,
                   opened, fetchLog, resolverCalls, cancelSignal, commitsAtCancel>>

\* PolicyCheck: the trust gate on the unparsed image of the reference
PolicyCheck ==
    /\ pc = "PolicyCheck"
    /\ ~cancelSignal
    /\ LET c == ciImage(pullRef)
       IN IF c.err # NoErr
          THEN /\ pc' = "Failed"
               /\ failure' = FailureKind(c.err)
               /\ UNCHANGED <<unparsedImg, originalRef, trustIn, trustRef, trustErr,
                              engineLog, manifestLog>>
          ELSE /\ checkTrusted(pullRef, c.unparsed)
               /\ unparsedImg' = c.unparsed
               /\ pc' = IF trustErr' = NoErr THEN "FetchingLayers" ELSE "Failed"
               /\ failure' = IF trustErr' = NoErr THEN "none" ELSE FailureKind(trustErr')
    /\ UNCHANGED <<rpmVars, tlsVars, variant, env, openVars, baseVars, policyContext, configErr, pullRef,
                   committed, sigErr, sigStore, opened, fetchLog, resolverCalls,
                   cancelSignal, commitsAtCancel>>

\* FetchingLayers: open the descriptor of a layer not opened yet; the layers
\* are fetched concurrently, so the opens return in any order
FetchLayer ==
    /\ pc = "FetchingLayers"
    /\ ~cancelSignal
    /\ \E i \in Unfetched :
        /\ \E urls \in PullURLLists : open([digest |-> i, URLs |-> urls])
        /\ IF openErr' = NoErr
           THEN /\ opened' = (i :> rsc') @@ opened
                /\ fetchLog' = Append(fetchLog, i)
                /\ pc' = pc
                /\ failure' = "none"
           ELSE /\ pc' = "Failed"
                /\ failure' = FailureKind(openErr')
                /\ UNCHANGED <<opened, fetchLog>>
    /\ UNCHANGED <<rpmVars, tlsVars, variant, env, trustVars, baseVars, pullRef, unparsedImg, committed,
                   sigErr, sigStore, resolverCalls, cancelSignal, commitsAtCancel>>

\* the result of a commit of layer i, that moves the pull on to goto
Commit(i, goto) ==
    /\ openStreams' = CloseOpened(i)
    /\ opened' = [j \in DOMAIN opened \ {i} |-> opened[j]]
    /\ IF env.put # NoErr
       THEN /\ pc' = "Failed"
            /\ failure' = FailureKind(env.put)
            /\ UNCHANGED <<committed, rootFS>>
       ELSE /\ committed' = Append(committed, i)
            /\ rootFS' = [rootFS EXCEPT !.DiffIDs = Append(@, i)]
            /\ pc' = goto
            /\ failure' = "none"
    /\ UNCHANGED <<rpmVars, tlsVars, variant, env, ld, rsc, openErr, contacted, blobLog, trustVars,
                   imageStore, manifest, baseErr, mapCalls, pullRef, unparsedImg,
                   sigErr, sigStore, fetchLog, resolverCalls, cancelSignal,
                   commitsAtCancel>>

\* FetchingLayers moving on after the first layer is committed
CommitLayerOnlyFirst ==
    /\ pc = "FetchingLayers"
    /\ ~cancelSignal
    /\ Len(committed) + 1 \in DOMAIN opened
    /\ Commit(Len(committed) + 1, "ReconcilingBase")

\* FetchingLayers committing whichever opened layer comes
CommitLayerAnyOpened ==
    /\ pc = "FetchingLayers"
    /\ ~cancelSignal
    /\ \E i \in DOMAIN opened :
        Commit(i, IF Len(committed) + 1 = Len(manifest.History)
                  THEN "ReconcilingBase" ELSE "FetchingLayers")

\* FetchingLayers committing without a look at the cancellation signal
CommitLayerIgnoresCancel ==
    /\ pc = "FetchingLayers"
    /\ Len(committed) + 1 \in DOMAIN opened
    /\ Commit(Len(committed) + 1,
              IF Len(committed) + 1 = Len(manifest.History)
              THEN "ReconcilingBase" ELSE "FetchingLayers")

\* FetchingLayers: stream the next layer in history order into the layer
\* store, once it is opened, and close it
CommitLayer ==
    /\ pc = "FetchingLayers"
    /\ ~cancelSignal
    /\ Len(committed) + 1 \in DOMAIN opened
    /\ Commit(Len(committed) + 1,
              IF Len(committed) + 1 = Len(manifest.History)
              THEN "ReconcilingBase" ELSE "FetchingLayers")

\* the base layer resolver called while the layers are still being opened
ReconcileBaseEarly ==
    /\ pc \in {"FetchingLayers", "ReconcilingBase"}
    /\ ~cancelSignal
    /\ detectBaseLayer(manifest)
    /\ resolverCalls' = resolverCalls + 1
    /\ pc' = IF baseErr' # NoErr THEN "Failed"
             ELSE IF pc = "ReconcilingBase" THEN "RecordingSignatures" ELSE pc
    /\ failure' = IF baseErr' = NoErr THEN "none" ELSE FailureKind(baseErr')
    /\ UNCHANGED <<rpmVars, tlsVars, variant, env, openVars, trustVars, pullRef, unparsedImg, committed,
                   sigErr, sigStore, opened, fetchLog, cancelSignal, commitsAtCancel>>

\* ReconcilingBase: the base layer resolver on the manifest and the RootFS
ReconcileBase ==
    /\ pc = "ReconcilingBase"
    /\ ~cancelSignal
    /\ detectBaseLayer(manifest)
    /\ resolverCalls' = resolverCalls + 1
    /\ pc' = IF baseErr' = NoErr THEN "RecordingSignatures" ELSE "Failed"
    /\ failure' = IF baseErr' = NoErr THEN "none" ELSE FailureKind(baseErr')
    /\ UNCHANGED <<rpmVars, tlsVars, variant, env, openVars, trustVars, pullRef, unparsedImg, committed,
                   sigErr, sigStore, opened, fetchLog, cancelSignal, commitsAtCancel>>

\* RecordingSignatures failing the pull when the recorder returns an error
RecordSignaturesFatal ==
    /\ pc = "RecordingSignatures"
    /\ ~cancelSignal
    /\ storeSignatures(unparsedImg)
    /\ imageStore' = IF sigErr' = NoErr THEN (PulledImage :> rootFS) @@ imageStore
                     ELSE imageStore
    /\ pc' = IF sigErr' = NoErr THEN "Done" ELSE "Failed"
    /\ failure' = IF sigErr' = NoErr THEN "none" ELSE "StoreUnavailable"
    /\ UNCHANGED <<rpmVars, tlsVars, variant, env, openVars, trustVars, manifest, rootFS, baseErr,
                   mapCalls, pullRef, unparsedImg, committed, opened, fetchLog,
                   resolverCalls, cancelSignal, commitsAtCancel>>

\* RecordingSignatures, then Done: whatever the recorder returns, the RootFS
\* is committed to the image store and the image becomes visible
RecordSignatures ==
    /\ pc = "RecordingSignatures"
    /\ ~cancelSignal
    /\ storeSignatures(unparsedImg)
    /\ imageStore' = (PulledImage :> rootFS) @@ imageStore
    /\ pc' = "Done"
    /\ failure' = "none"
    /\ UNCHANGED <<rpmVars, tlsVars, variant, env, openVars, trustVars, manifest, rootFS, baseErr,
                   mapCalls, pullRef, unparsedImg, committed, opened, fetchLog,
                   resolverCalls, cancelSignal, commitsAtCancel>>

\* the caller cancels a pull that is under way
Cancel ==
    /\ pc \notin {"Done", "Failed"}
    /\ ~cancelSignal
    /\ cancelSignal' = TRUE
    /\ commitsAtCancel' = Len(committed)
    /\ UNCHANGED <<rpmVars, tlsVars, variant, pc, env, openVars, trustVars, baseVars, pullRef,
                   unparsedImg, committed, failure, sigErr, sigStore, opened,
                   fetchLog, resolverCalls>>

\* the pull meets the cancellation signal: what it was doing is aborted
Abort ==
    /\ pc \notin {"Done", "Failed"}
    /\ cancelSignal
    /\ pc' = "Failed"
    /\ failure' = "Cancelled"
    /\ UNCHANGED <<rpmVars, tlsVars, variant, env, openVars, trustVars, baseVars, pullRef, unparsedImg,
                   committed, sigErr, sigStore, opened, fetchLog, resolverCalls,
                   cancelSignal, commitsAtCancel>>

Next ==
    \/ Start
    \/ ResolveManifest
    \/ PolicyCheck
    \/ FetchLayer
    \/ CommitLayer
    \/ ReconcileBase
    \/ RecordSignatures
    \/ Cancel
    \/ Abort

Spec == Init /\ [][Next]_vars

\* ------------------------------------------------------------------ claims
\* the digests of the layers of the manifest, oldest first
LayerDigests == [i \in 1..Len(manifest.History) |-> i]

\* C1: the image of a pull is visible only once the pull is Done and every
\* layer of the manifest has been committed, one commit per history entry in
\* history order; the RootFS made visible holds exactly those layers.
C1_VisibleOnlyAfterAllCommits ==
    /\ Visible =>
           /\ pc = "Done"
           /\ committed = LayerDigests
           /\ imageStore[PulledImage].DiffIDs = LayerDigests
    /\ pc = "Done" => (Visible /\ Len(committed) = Len(manifest.History))
    /\ Len(committed) <= Len(manifest.History)

\* C1 witness: a pull of a manifest of two entries is Done after two commits
C1_Witness ==
    /\ pc = "Done"
    /\ Len(manifest.History) = 2
    /\ committed = <<1, 2>>
    /\ Visible

\* the policy engine was asked about the image and did not allow it
PolicyDenial == engineLog # <<>> /\ ~env.allowed

\* a read from the registry or a write to the layer store failed
TransportFailure ==
    \/ openErr # NoErr
    \/ failure = "TransferError"

\* C2: once a pull has met a transport failure or a policy denial, or has
\* failed for any reason, its image is not in the image store, the image
\* store is as it was before the pull and no signature is recorded; only
\* committed layers remain.
C2_FailureLeavesNoImage ==
    (pc = "Failed" \/ PolicyDenial \/ TransportFailure) =>
        /\ ~Visible
        /\ imageStore \in PullStores
        /\ sigStore = {}
        /\ pc = "Failed"

\* C2 witness: a transport failure after one layer was committed
C2_Witness ==
    /\ pc = "Failed"
    /\ failure = "TransferError"
    /\ Len(manifest.History) = 2
    /\ committed = <<1>>
    /\ ~Visible

\* the position of the first URL of urls whose seek succeeds, 0 when none does
FirstOK(urls) ==
    LET ok == {i \in 1..Len(urls) : env.url[urls[i]] = NoErr}
    IN IF ok = {} THEN 0 ELSE CHOOSE i \in ok : \A j \in ok : i <= j

FallbackReturned ==
    pc = "returned" /\ variant = "windows" /\ Len(ld.URLs) > 0

\* C3: open on a descriptor with alternate URLs contacts the URLs in the order
\* given, up to and including the first one whose seek to 0 succeeds, returns
\* the stream of that URL, and contacts no URL after it.
C3_FirstSuccessWins ==
    FallbackReturned =>
        /\ \E n \in 0..Len(ld.URLs) : contacted = SubSeq(ld.URLs, 1, n)
        /\ FirstOK(ld.URLs) # 0 =>
               /\ contacted = SubSeq(ld.URLs, 1, FirstOK(ld.URLs))
               /\ rsc = NewHTTPReadSeeker(ld.URLs[FirstOK(ld.URLs)])
               /\ openErr = NoErr

\* C3 witness: u1 fails, u2 and u3 succeed; the stream is u2's, u3 not contacted
C3_Witness ==
    /\ FallbackReturned
    /\ Len(ld.URLs) = 3
    /\ env.url[ld.URLs[1]] # NoErr
    /\ env.url[ld.URLs[2]] = NoErr
    /\ env.url[ld.URLs[3]] = NoErr
    /\ rsc = NewHTTPReadSeeker(ld.URLs[2])
    /\ contacted = <<ld.URLs[1], ld.URLs[2]>>

\* C10: when every alternate URL fails, open has contacted each URL once, in
\* order, returns no stream and returns the error of the last URL.
C10_AllFailLastError ==
    (FallbackReturned /\ FirstOK(ld.URLs) = 0) =>
        /\ contacted = ld.URLs
        /\ rsc = Nil
        /\ openErr = env.url[ld.URLs[Len(ld.URLs)]]

\* C10 witness: two or more URLs fail with different errors
C10_Witness ==
    /\ FallbackReturned
    /\ FirstOK(ld.URLs) = 0
    /\ Len(ld.URLs) >= 2
    /\ env.url[ld.URLs[1]] # env.url[ld.URLs[Len(ld.URLs)]]
    /\ openErr = env.url[ld.URLs[Len(ld.URLs)]]
    /\ contacted = ld.URLs

\* checkTrusted has returned to a puller whose policy context is configured
GateReturned == pc = "returned" /\ policyContext = "pc"

\* the canonical digest of the manifest the source of trustIn.unparsed serves
PinnedDigest ==
    IF env.mfst[trustIn.unparsed] = "m1" THEN "sha256:m1" ELSE "sha256:m2"

\* every step of checkTrusted after the engine's answer succeeds
GateStepsSucceed ==
    /\ env.allowed
    /\ env.engErr = NoErr
    /\ env.mfst[trustIn.unparsed] # NoManifest
    /\ env.dgstOK
    /\ env.attachOK

\* C4: with a policy configured and the image allowed, checkTrusted returns the
\* name of the input reference pinned to the canonical digest of the manifest
\* of the very source the engine evaluated, whatever tag or digest the input
\* reference carried; it returns a reference exactly when every step succeeds.
C4_AllowedIsPinned ==
    GateReturned =>
        /\ GateStepsSucceed <=> trustRef # NilRef
        /\ trustRef # NilRef =>
               /\ trustErr = NoErr
               /\ trustRef.name = trustIn.ref.name
               /\ trustRef.digest = PinnedDigest
               /\ engineLog = <<trustIn.unparsed>>
               /\ manifestLog = <<trustIn.unparsed>>

\* C4 witness: a reference that already carried a digest is pinned to the
\* digest of the manifest of the evaluated source, not the other source's
C4_Witness ==
    /\ GateReturned
    /\ GateStepsSucceed
    /\ trustIn.ref.digest = "sha256:old"
    /\ env.mfst["src1"] # env.mfst["src2"]
    /\ trustRef.digest = PinnedDigest
    /\ trustRef.name = trustIn.ref.name

\* C5: without a policy context checkTrusted returns the input reference as it
\* is, with no error, asks no policy engine and retrieves no manifest.
C5_NoPolicyUnchanged ==
    (pc = "returned" /\ policyContext = "nil") =>
        /\ trustRef = trustIn.ref
        /\ trustErr = NoErr
        /\ engineLog = <<>>
        /\ manifestLog = <<>>

\* C5 witness: a tagged reference comes back tagged and unpinned
C5_Witness ==
    /\ pc = "returned"
    /\ policyContext = "nil"
    /\ trustIn.ref.tag = "latest"
    /\ trustRef = trustIn.ref
    /\ trustRef.digest = ""

\* s ends with t
EndsWith(s, t) ==
    Len(s) >= Len(t) /\ SubSeq(s, Len(s) - Len(t) + 1, Len(s)) = t

\* s starts with t
StartsWith(s, t) == Len(s) >= Len(t) /\ SubSeq(s, 1, Len(t)) = t

\* C6: when the engine does not allow the image, checkTrusted returns no
\* reference and retrieves no manifest; its error starts with the reference
\* and says "isn't allowed", and ends with the engine's reason when there is
\* one and with "isn't allowed" when there is none.
C6_DenialMessage ==
    (GateReturned /\ ~env.allowed) =>
        /\ trustRef = NilRef
        /\ manifestLog = <<>>
        /\ StartsWith(trustErr, RefString(trustIn.ref))
        /\ \E i \in 1..Len(trustErr) : trustErr[i] = "isn't allowed"
        /\ env.engErr # NoErr => EndsWith(trustErr, env.engErr)
        /\ env.engErr = NoErr => EndsWith(trustErr, <<"isn't allowed">>)

\* C6 witness: a denial with a reason, of a tagged reference
C6_Witness ==
    /\ GateReturned
    /\ ~env.allowed
    /\ env.engErr \in EngineErrs
    /\ trustIn.ref.tag = "latest"
    /\ EndsWith(trustErr, env.engErr)
    /\ trustRef = NilRef

\* detectBaseLayer of the windows build has returned
ResolverReturned == pc = "returned" /\ variant = "windows"

\* the entry detectBaseLayer reads the parent from decodes
ParentDecodes == BaseEntry(manifest).V1Compatibility.json

\* the parent that entry declares
DeclaredParent == BaseEntry(manifest).V1Compatibility.Parent

\* the stored images with a layers+base RootFS whose base-layer identifier is
\* the declared parent
StoredMatches ==
    {i \in DOMAIN imageStore :
        /\ imageStore[i].Type = TypeLayersWithBase
        /\ BaseLayerID(imageStore[i]) = DeclaredParent}

C8_UnresolvedNamesParent ==
    (ResolverReturned /\ ParentDecodes /\ DeclaredParent # "" /\ StoredMatches = {}) =>
        /\ baseErr # NoErr
        /\ baseErr[Len(baseErr)] = DeclaredParent
        /\ baseErr[1] = "Invalid base layer"

\* C8 witness: the only stored image on B1 has the type layers, the parent is
\* the identifier of B1, and the error names it
C8_Witness ==
    /\ ResolverReturned
    /\ ParentDecodes
    /\ DeclaredParent = "idB1"
    /\ BaseEntry(manifest).V1Compatibility.ID # DeclaredParent
    /\ \E i \in DOMAIN imageStore :
           imageStore[i].Type = TypeLayers /\ imageStore[i].BaseLayer = "B1"
    /\ StoredMatches = {}
    /\ baseErr = <<"Invalid base layer", "idB1">>

C11_NoURLsReadsBlobStore ==
    (pc = "returned" /\ Len(ld.URLs) = 0 /\ variant \in Variants) =>
        /\ blobLog = <<ld.digest>>
        /\ contacted = <<>>
        /\ openErr = env.blob[ld.digest]
        /\ rsc = IF env.blob[ld.digest] = NoErr
                 THEN [from |-> "blob", url |-> 0, digest |-> ld.digest]
                 ELSE Nil

\* C11 witness: in the windows build the blob of the digest cannot be opened
\* while the other blob can, and open returns that error
C11_Witness ==
    /\ pc = "returned"
    /\ variant = "windows"
    /\ Len(ld.URLs) = 0
    /\ env.blob[ld.digest] # NoErr
    /\ \E d \in Digests : env.blob[d] = NoErr
    /\ openErr = env.blob[ld.digest]
    /\ blobLog = <<ld.digest>>

\* C12: in every interleaving of the opens and the commits of a pull, the
\* layers committed so far are the first layers of the history, in history
\* order: layer i + 1 is never committed before layer i, in whatever order
\* the opens returned.
C12_CommitsInHistoryOrder ==
    /\ \A k \in 1..Len(committed) : committed[k] = k
    /\ \A k \in DOMAIN opened : k > Len(committed)

\* C12 witness: the newer layer was opened before the older one, and the two
\* are committed oldest first
C12_Witness ==
    /\ fetchLog = <<2, 1>>
    /\ committed = <<1, 2>>

\* the pull failed in a state before ReconcilingBase
FailedEarlier ==
    /\ pc = "Failed"
    /\ \/ failure \in {"TransferError", "PolicyDenied", "DigestComputationError"}
       \/ Len(committed) < Len(manifest.History)

\* C13: a pull calls the base layer resolver at most once; a pull that is
\* Done called it exactly once; the call comes after the commit of the last
\* layer and before the image is visible; a pull that failed in an earlier
\* state never called it.
C13_ResolverOnceAfterCommits ==
    /\ resolverCalls <= 1
    /\ pc = "Done" => resolverCalls = 1
    /\ Visible => resolverCalls = 1
    /\ resolverCalls = 1 =>
           /\ committed = LayerDigests
           /\ pc \in {"RecordingSignatures", "Done", "Failed"}
    /\ FailedEarlier => resolverCalls = 0

\* C13 witness: a pull of two layers, opened newest first, is Done after one
\* call of the resolver
C13_Witness ==
    /\ pc = "Done"
    /\ resolverCalls = 1
    /\ fetchLog = <<2, 1>>
    /\ Visible

\* C14: once storeSignatures has returned an error the pull is Done, not
\* Failed, and its image is visible.
C14_SignatureFailureNotFatal ==
    sigErr # NoErr =>
        /\ pc = "Done"
        /\ failure = "none"
        /\ Visible
        /\ imageStore[PulledImage] = rootFS

\* C14 witness: the signature store could not be reached and the pull is Done
C14_Witness ==
    /\ variant = "unix"
    /\ sigErr = <<"store", "unavailable">>
    /\ sigStore = {}
    /\ pc = "Done"
    /\ Visible

\* C15: from the moment a pull is cancelled its image is never visible, no
\* layer is committed that was not committed at the cancellation, the pull
\* is never Done, and when it has failed the kind is Cancelled.
C15_CancelLeavesNoImage ==
    cancelSignal =>
        /\ ~Visible
        /\ imageStore \in PullStores
        /\ Len(committed) = commitsAtCancel
        /\ pc # "Done"
        /\ pc = "Failed" => failure = "Cancelled"

\* C15 witness: both layers were opened, one was committed, then the pull was
\* cancelled and failed
C15_Witness ==
    /\ cancelSignal
    /\ pc = "Failed"
    /\ failure = "Cancelled"
    /\ Len(fetchLog) = 2
    /\ commitsAtCancel = 1
    /\ committed = <<1>>

\* C16: when a pull is Done and its RootFS has the type layers+base, the
\* BaseLayer of the RootFS is not empty and is the BaseLayer of an image that
\* was in the image store before the pull.
C16_DoneBaseLayerPresent ==
    (pc = "Done" /\ rootFS.Type = TypeLayersWithBase) =>
        /\ rootFS.BaseLayer # ""
        /\ \E i \in DOMAIN imageStore \ {PulledImage} :
               imageStore[i].BaseLayer = rootFS.BaseLayer
        /\ imageStore[PulledImage].BaseLayer = rootFS.BaseLayer

\* C16 witness: a pull in the windows build is Done with the base layer of
\* the stored image
C16_Witness ==
    /\ pc = "Done"
    /\ variant = "windows"
    /\ rootFS.Type = TypeLayersWithBase
    /\ rootFS.BaseLayer = "B1"
    /\ Len(rootFS.DiffIDs) = 2

\* C17: in the windows build configurePolicyContext leaves no policy context
\* and no error, checkTrusted returns the reference it was given and no
\* error, for every reference, without a question to the policy engine or a
\* manifest read, and storeSignatures returns no error and leaves the
\* signature store as it was.
C17_WindowsTrustNoOps ==
    variant = "windows" =>
        /\ pc # "failed"
        /\ pc \in {"configured", "returned", "recorded"} =>
               (policyContext = "nil" /\ configErr = NoErr)
        /\ pc \in {"returned", "recorded"} =>
               /\ trustRef = trustIn.ref
               /\ trustErr = NoErr
               /\ engineLog = <<>>
               /\ manifestLog = <<>>
        /\ pc = "recorded" => (sigErr = NoErr /\ sigStore = {})

\* C17 witness: the three functions of the windows build have returned, on a
\* tagged reference, where the engine would deny the image and the signature
\* store cannot be reached
C17_Witness ==
    /\ variant = "windows"
    /\ pc = "recorded"
    /\ ~env.allowed
    /\ env.record # NoErr
    /\ trustIn.ref.tag = "latest"
    /\ trustRef = trustIn.ref
    /\ sigStore = {}

\* the step of Client that reads the CA file has nothing to do or succeeds
ClientCAsLoad ==
    \/ tlsOptions.InsecureSkipVerify
    \/ tlsOptions.CAFile = ""
    \/ (tlsFiles["system"] = "pem" /\ tlsFiles[tlsOptions.CAFile] = "pem")

\* the Options name no certificate file or no key file
PairIncomplete == tlsOptions.CertFile = "" \/ tlsOptions.KeyFile = ""

\* C18: with an empty CertFile or an empty KeyFile, Client loads no key pair
\* and returns a config without certificates and no error (where the CA file
\* gives no error of its own), and Server returns an error and no config.
C18_IncompletePairClientSkipsServerFails ==
    /\ (pc = "client" /\ PairIncomplete /\ ClientCAsLoad) =>
           /\ tlsLoads = <<>>
           /\ tlsErr = NoErr
           /\ ~tlsReturned.nil
           /\ tlsReturned.Certificates = <<>>
    /\ (pc = "server" /\ PairIncomplete) =>
           /\ tlsErr # NoErr
           /\ tlsReturned.nil

\* C18 witness: Client, given a certificate file that holds a certificate
\* and no key file, has run a loader and returned an error and no config
C18_Witness ==
    /\ pc = "client"
    /\ tlsOptions.CertFile = "cert.pem"
    /\ tlsFiles["cert.pem"] = "pem"
    /\ tlsOptions.KeyFile = ""
    /\ tlsOptions.CAFile = ""
    /\ tlsLoads = <<"LoadX509KeyPair">>
    /\ tlsErr # NoErr
    /\ tlsReturned.nil

\* what detectBaseLayer returned is what the k-th history entry of the
\* manifest asks for: its decoding error, or the error for its empty Parent,
\* or a base layer whose identifier is its Parent, or the error that names
\* its Parent
ParentTakenFrom(k) ==
    LET u == Unmarshal(manifest.History[k].V1Compatibility)
    IN /\ u.err # NoErr => baseErr = u.err
       /\ (u.err = NoErr /\ u.v1img.Parent = "") =>
              baseErr = <<"Last layer", u.v1img.ID,
                          "does not have a base layer reference">>
       /\ (u.err = NoErr /\ u.v1img.Parent # "") =>
              \/ baseErr = NoErr /\ BaseLayerID(rootFS) = u.v1img.Parent
              \/ baseErr = <<"Invalid base layer", u.v1img.Parent>>

\* C19, as stated: detectBaseLayer takes the declared parent from the first
\* entry of the manifest's history, for every manifest of one entry or more.
C19_ParentFromFirstEntry ==
    (ResolverReturned /\ Len(manifest.History) >= 1) => ParentTakenFrom(1)

\* C19: detectBaseLayer takes the declared parent from the last entry of the
\* manifest's history, m.History[len(m.History)-1], for every manifest of one
\* entry or more.
C19_ParentFromLastEntry ==
    (ResolverReturned /\ Len(manifest.History) >= 1) =>
        ParentTakenFrom(Len(manifest.History))

\* C19 witness: the first entry declares a parent no stored image has, the
\* last entry the parent of a stored image, and detectBaseLayer succeeds
C19_Witness ==
    /\ ResolverReturned
    /\ Len(manifest.History) = 2
    /\ manifest.History[1].V1Compatibility.Parent = "idZ"
    /\ manifest.History[2].V1Compatibility.Parent = "idB1"
    /\ baseErr = NoErr
    /\ rootFS.BaseLayer = "B1"

\* C20: whichever matching image the scan of the store meets first, the
\* result is the same: every result detectBaseLayer can produce on a store
\* and a manifest has the same BaseLayer, Type and error, and the result of
\* the run made is that one.
C20_ResultIndependentOfScanOrder ==
    variant = "windows" =>
        LET runs == DetectBaseLayerWindows(imageStore, manifest, NewRootFS)
        IN /\ \A r1, r2 \in runs :
                  /\ r1.rootFS.BaseLayer = r2.rootFS.BaseLayer
                  /\ r1.rootFS.Type = r2.rootFS.Type
                  /\ r1.err = r2.err
           /\ pc = "returned" =>
                  \A r \in runs :
                      /\ r.rootFS.BaseLayer = rootFS.BaseLayer
                      /\ r.rootFS.Type = rootFS.Type
                      /\ r.err = baseErr

\* C20 witness: two stored images match the declared parent and
\* detectBaseLayer has returned the base layer
C20_Witness ==
    /\ ResolverReturned
    /\ Cardinality(StoredMatches) >= 2
    /\ baseErr = NoErr
    /\ rootFS.Type = TypeLayersWithBase
    /\ rootFS.BaseLayer = "B1"

\* a step is a call of detectBaseLayer
ResolverStep == pc = "call" /\ pc' = "returned"

\* C21: a call of detectBaseLayer leaves the image store as it was; when it
\* returns an error the RootFS is as it was; the layers of the RootFS are
\* never touched; Type or BaseLayer change only when it returns no error,
\* and then, in the windows build, Type is layers+base and BaseLayer is the
\* BaseLayer of a stored image, both written.
C21_ResolverFrame ==
    [][ResolverStep =>
          /\ imageStore' = imageStore
          /\ baseErr' # NoErr => rootFS' = rootFS
          /\ rootFS'.DiffIDs = rootFS.DiffIDs
          /\ rootFS' # rootFS => baseErr' = NoErr
          /\ (baseErr' = NoErr /\ variant = "windows") =>
                 /\ rootFS'.Type = TypeLayersWithBase
                 /\ \E i \in DOMAIN imageStore :
                        rootFS'.BaseLayer = imageStore[i].BaseLayer
                 /\ rootFS'.BaseLayer # rootFS.BaseLayer
          /\ (baseErr' = NoErr /\ variant = "unix") => rootFS' = rootFS]_vars

\* C21 witness: the store holds images, none matches the parent the manifest
\* declares, and detectBaseLayer has failed with the RootFS as it was made
C21_Witness ==
    /\ ResolverReturned
    /\ DOMAIN imageStore # {}
    /\ baseErr # NoErr
    /\ baseErr[1] = "Invalid base layer"
    /\ rootFS = NewRootFS

\* checkTrusted has returned, in either build
CheckTrustedReturned == pc \in {"returned", "recorded"}

\* C22: checkTrusted returns a reference only together with no error. In the
\* non-windows build, when the engine allows the image and returns an error,
\* or else the manifest cannot be read, or else its digest cannot be
\* computed, or else the digest cannot be attached, checkTrusted returns
\* that very error and no reference.
C22_ReferenceOnlyWithoutError ==
    CheckTrustedReturned =>
        /\ trustRef # NilRef => trustErr = NoErr
        /\ (variant = "unix" /\ env.allowed) =>
               LET failed ==
                       IF env.engErr # NoErr THEN env.engErr
                       ELSE IF env.mfst[trustIn.unparsed] = NoManifest
                       THEN <<"manifest", "unknown">>
                       ELSE IF ~env.dgstOK THEN <<"digest", "failed">>
                       ELSE IF ~env.attachOK THEN <<"invalid", "digest", "format">>
                       ELSE NoErr
               IN /\ trustErr = failed
                  /\ failed # NoErr => trustRef = NilRef

\* C22 witness: the engine allows the image and returns an error, every
\* later step would succeed, and checkTrusted has returned the engine's
\* error and no reference
C22_Witness ==
    /\ pc = "returned"
    /\ variant = "unix"
    /\ env.allowed
    /\ env.engErr # NoErr
    /\ env.mfst[trustIn.unparsed] # NoManifest
    /\ env.dgstOK
    /\ env.attachOK
    /\ trustErr = env.engErr
    /\ trustRef = NilRef

\* C23: when open has gone through the alternate URLs, the streams it made
\* and did not close are the returned stream alone, none when it returns no
\* stream; it returns a stream exactly when it returns no error, and the
\* stream is that of the last URL it contacted.
C23_FailedStreamsClosed ==
    FallbackReturned =>
        /\ openStreams = {rsc} \ {Nil}
        /\ rsc # Nil <=> openErr = NoErr
        /\ rsc # Nil => rsc = NewHTTPReadSeeker(contacted[Len(contacted)])

\* C23 witness: the seeks of the first two URLs fail, the third succeeds, and
\* the only stream left open is the third's
C23_Witness ==
    /\ FallbackReturned
    /\ Len(ld.URLs) = 3
    /\ env.url[ld.URLs[1]] # NoErr
    /\ env.url[ld.URLs[2]] # NoErr
    /\ env.url[ld.URLs[3]] = NoErr
    /\ contacted = ld.URLs
    /\ openStreams = {NewHTTPReadSeeker(ld.URLs[3])}

\* C24: in the non-windows build open contacts no URL, whatever URLs the
\* descriptor carries: it opens the blob of the descriptor's digest in the
\* registry blob store, once, and returns the blob store's stream or error.
C24_UnixNeverTriesURLs ==
    (pc = "returned" /\ variant = "unix") =>
        /\ contacted = <<>>
        /\ blobLog = <<ld.digest>>
        /\ openErr = BlobsOpen(ld.digest).err
        /\ rsc = BlobsOpen(ld.digest).rsc
        /\ openStreams = {rsc} \ {Nil}

\* C24 witness: the descriptor carries three URLs that all answer, the blob
\* store does not, and open has returned the blob store's error
C24_Witness ==
    /\ pc = "returned"
    /\ variant = "unix"
    /\ Len(ld.URLs) = 3
    /\ \A u \in URLSet : env.url[u] = NoErr
    /\ env.blob[ld.digest] # NoErr
    /\ openErr = env.blob[ld.digest]
    /\ rsc = Nil
    /\ contacted = <<>>

\* C25: the goroutine of Version always terminates: once it waits for rpm,
\* the result of the wait is eventually received from done and the goroutine
\* exits, also when the timeout fires first (a goroutine that ends with a
\* crash of the program counts as terminated).
C25_WaiterTerminates ==
    (waiter = "Wait") ~> (waiter \in {"exited", "crashed"})

\* C25 witness: the timeout fired, rpm was killed, Version has returned "rpm
\* timed out", and the goroutine stands at its send on done, which nothing
\* receives from any more
C25_Witness ==
    /\ pc = "returned"
    /\ versionErr = <<"rpm timed out">>
    /\ cmdProcess = "killed"
    /\ waitErr = <<"signal: killed">>
    /\ waiter = "send"

====
